---- MODULE Spec2Model ----
(***************************************************************************)
(* Model of birthday_bot.py: one batch run of main() after another over a  *)
(* persistent sqlite table `sent`.                                         *)
(*                                                                         *)
(* Text is a sequence of tokens (strings); the token "{name}" is the       *)
(* placeholder that str.replace / str.format substitute.  A spreadsheet    *)
(* cell is a record [t, v]: t = "none" (row.get on an absent column),      *)
(* t = "float" (pandas NaN, what an empty cell reads as) or t = "str".     *)
(*                                                                         *)
(* Modelling assumptions: the sqlite store never fails; the wall clock     *)
(* does not change date while one run is in progress; SEND_DELAY_SECONDS   *)
(* is a valid non-negative number; one process runs at a time.             *)
(*                                                                         *)
(* Specifications: Spec is a single run on day 0 over the full input       *)
(* universe; FairSpec adds the fairness of its sending loop; SpecRuns is   *)
(* a sequence of runs over a narrower universe; SpecCompose applies        *)
(* generate_personal_message alone.                                        *)
(***************************************************************************)
EXTENDS Integers, Sequences, FiniteSets, TLC

(* ------------------------------ bounds -------------------------------- *)
MaxRows == 2
MaxRuns == 2
NumYears == 2
DaysPerYear == 2
SendCountCap == 2

\* the UTC year of day 0 of the clock
FirstYear == 2024

(* ------------------------------- cells -------------------------------- *)
None == [t |-> "none", v |-> <<>>]
NaN == [t |-> "float", v |-> <<"nan">>]
Str(toks) == [t |-> "str", v |-> toks]

\* Python truthiness of a cell value: None and "" are falsy, NaN is truthy
Truthy(x) == \/ x.t = "float"
             \/ x.t = "str" /\ x.v # <<>>

\* str.strip() on one token
StripTok(s) ==
  CASE s = " Bob " -> "Bob"
    [] s = " +1555" -> "+1555"
    [] s = "Name " -> "Name"
    [] OTHER -> s

\* str.lower() on one token
LowerTok(s) ==
  CASE s = "Name" -> "name"
    [] s = "PHONE" -> "phone"
    [] s = "Birthday" -> "birthday"
    [] OTHER -> s

\* str(cell).strip() for a one-token cell (lines 234-235)
PyStrStrip(cell) ==
  CASE cell.t = "none" -> "None"
    [] cell.t = "float" -> "nan"
    [] OTHER -> StripTok(cell.v[1])

\* str(x) as used inside an f-string (line 98)
PyStr(cell) ==
  CASE cell.t = "none" -> <<"None">>
    [] cell.t = "float" -> <<"nan">>
    [] OTHER -> cell.v

(* --------------------------- input universes -------------------------- *)
NameCells == {Str(<<"Alice">>), Str(<<" Bob ">>)}
PhoneCells == {Str(<<"+1555">>), Str(<<" +1555">>), Str(<<"+447000">>)}
Names == {PyStrStrip(c) : c \in NameCells}
Phones == {PyStrStrip(c) : c \in PhoneCells}
Years == FirstYear .. (FirstYear + NumYears - 1)
Days == 1 .. DaysPerYear

NotesText == <<"loves tea">>
TemplateText == <<"Yo ", "{name}", "!">>
NotesValues == {None, NaN, Str(NotesText)}
TemplateValues == {None, NaN, Str(TemplateText)}

(* ------------------------------ DB helpers ---------------------------- *)
\* The table `sent` is a set of rows [phone, year, sent_at, message].

\* init_db: CREATE TABLE IF NOT EXISTS keeps the rows of an existing table
init_db(conn) == conn

\* faulty variant: the lookup is keyed by the wrong year
already_sent_last_year(conn, phone, year) ==
  \E r \in conn : r.phone = phone /\ r.year = year - 1

already_sent(conn, phone, year) ==
  \E r \in conn : r.phone = phone /\ r.year = year

\* faulty variant: INSERT OR IGNORE keeps the existing row
record_send_ignore(conn, phone, year, message, utcnow) ==
  IF \E r \in conn : r.phone = phone /\ r.year = year
  THEN conn
  ELSE conn \cup {[phone |-> phone, year |-> year, sent_at |-> utcnow,
                   message |-> message]}

\* faulty variant: PRIMARY KEY (phone) alone, so REPLACE drops the other years' rows
record_send_by_phone(conn, phone, year, message, utcnow) ==
  {r \in conn : r.phone # phone}
    \cup {[phone |-> phone, year |-> year, sent_at |-> utcnow, message |-> message]}

\* INSERT OR REPLACE under PRIMARY KEY (phone, year)
record_send(conn, phone, year, message, utcnow) ==
  {r \in conn : ~(r.phone = phone /\ r.year = year)}
    \cup {[phone |-> phone, year |-> year, sent_at |-> utcnow, message |-> message]}

(* -------------------------- LLM personalization ----------------------- *)
BuiltinTemplates ==
  { <<"Happy Birthday, ", "{name}", "! Wishing you a fantastic day filled with joy.">>,
    <<"Many happy returns, ", "{name}", "! Hope you have a wonderful birthday.">>,
    <<"Happy Birthday ", "{name}", "! May your day be full of fun and surprises.">> }

FallbackTemplates ==
  { <<"Happy Birthday, ", "{name}", "! Wishing you a fantastic day filled with joy.">>,
    <<"Many happy returns, ", "{name}", "! Hope you have a wonderful birthday.">> }

\* what the chat completion may answer, already stripped (line 117)
LLMTexts(name) == { <<"HBD ", name, "! Have a great one">> }

\* template.replace("{name}", name)
Replace(t, name) == [k \in DOMAIN t |-> IF t[k] = "{name}" THEN name ELSE t[k]]

\* t.format(name=name) raises on a replacement field other than {name}
FormatRaises(t) == \E k \in DOMAIN t : t[k] \in {"{}", "{x}"}
Format(t, name) == Replace(t, name)

Ok(path, text) == [kind |-> "ok", path |-> path, text |-> text]
Raise(path) == [kind |-> "raise", path |-> path, text |-> <<>>]

\* faulty variant: the except branch shares the no-provider branch (all builtin
\* templates, notes appended)
generate_personal_message_shared(name, notes, template, openai_configured) ==
  IF Truthy(template)
  THEN IF template.t = "str"
       THEN {Ok("template", Replace(template.v, name))}
       ELSE {Raise("template")}
  ELSE IF ~openai_configured
  THEN { IF FormatRaises(IF Truthy(notes) THEN t \o <<" PS: ">> \o PyStr(notes) ELSE t)
         THEN Raise("builtin")
         ELSE Ok("builtin",
                 Format(IF Truthy(notes) THEN t \o <<" PS: ">> \o PyStr(notes) ELSE t, name))
         : t \in BuiltinTemplates }
  ELSE {Ok("llm", text) : text \in LLMTexts(name)}
         \cup { IF FormatRaises(IF Truthy(notes) THEN t \o <<" PS: ">> \o PyStr(notes) ELSE t)
                THEN Raise("fallback")
                ELSE Ok("fallback",
                        Format(IF Truthy(notes) THEN t \o <<" PS: ">> \o PyStr(notes) ELSE t,
                               name))
                : t \in BuiltinTemplates }

\* Every result generate_personal_message can produce: random.choice and the
\* OpenAI call are the nondeterministic parts.
generate_personal_message(name, notes, template, openai_configured) ==
  IF Truthy(template)
  THEN IF template.t = "str"
       THEN {Ok("template", Replace(template.v, name))}
       ELSE {Raise("template")}   \* float has no attribute 'replace'
  ELSE IF ~openai_configured
  THEN { IF FormatRaises(IF Truthy(notes) THEN t \o <<" PS: ">> \o PyStr(notes) ELSE t)
         THEN Raise("builtin")
         ELSE Ok("builtin",
                 Format(IF Truthy(notes) THEN t \o <<" PS: ">> \o PyStr(notes) ELSE t, name))
         : t \in BuiltinTemplates }
  ELSE {Ok("llm", text) : text \in LLMTexts(name)}
         \cup {Ok("fallback", Format(t, name)) : t \in FallbackTemplates}

(* ---------------------------- WhatsApp senders ------------------------ *)
StatusCodes == {200, 201, 400, 500}

\* requests.post either answers with a status code or raises
PostOutcomes == {[raised |-> FALSE, status |-> c] : c \in StatusCodes}
                  \cup {[raised |-> TRUE, status |-> 0]}

Provider(cfg) ==
  IF cfg.twilio THEN "twilio" ELSE IF cfg.meta THEN "meta" ELSE "none"

\* results of send_whatsapp: "accepted" (True), "rejected" (False), "raised"
send_whatsapp(cfg) ==
  IF Provider(cfg) = "none"
  THEN {"rejected"}
  ELSE { IF p.raised THEN "raised"
         ELSE IF p.status \in {200, 201} THEN "accepted" ELSE "rejected"
         : p \in PostOutcomes }

(* ------------------------------ Date utilities ------------------------ *)
\* The clock counts days from 1 January of FirstYear; every run starts at
\* the same hour, late enough for the zone far east of UTC to be on the
\* next day already.
MaxTime == NumYears * DaysPerYear - 1
UtcYear(t) == FirstYear + (t \div DaysPerYear)
UtcDay(t) == (t % DaysPerYear) + 1
AheadZone == <<"Pacific/Kiritimati">>
LocalDay(t, ahead) == IF ahead THEN UtcDay(t + 1) ELSE UtcDay(t)

BirthYears == {1990, 2000}
NoDate == [year |-> 0, md |-> 0]
\* a birthday cell: NaN, a Timestamp, or a string that pd.to_datetime may
\* or may not parse
BirthdayCells ==
  {[t |-> "float", parses |-> FALSE, year |-> 0, md |-> 0],
   [t |-> "str", parses |-> FALSE, year |-> 0, md |-> 0]}
    \cup {[t |-> "timestamp", parses |-> TRUE, year |-> y, md |-> d] :
             y \in BirthYears, d \in Days}
    \cup {[t |-> "str", parses |-> TRUE, year |-> 1990, md |-> d] : d \in Days}

\* None stands for "no date" (NoDate)
parse_birthday(bday_value) ==
  CASE bday_value.t = "float" -> NoDate
    [] bday_value.t = "timestamp" -> [year |-> bday_value.year, md |-> bday_value.md]
    [] bday_value.parses -> [year |-> bday_value.year, md |-> bday_value.md]
    [] OTHER -> NoDate

TimezoneCells == {None, NaN, Str(<<"Mars/Olympus">>), Str(AheadZone)}

is_birthday_today(bday_date, tz_name, t) ==
  LET ahead == Truthy(tz_name) /\ tz_name.t = "str" /\ tz_name.v = AheadZone
  IN bday_date.md = LocalDay(t, ahead)

(* -------------------------------- state ------------------------------- *)
VARIABLES
  pc,          \* where main() is: Idle, Loading, Filtering, Sending, Done, Aborted
  now,         \* the wall clock, in days
  runs,        \* runs of main() started so far
  env,         \* what the environment of this process sets (lines 31-47)
  conn,        \* rows of the table `sent`
  columns,     \* df.columns after normalisation
  today_year,  \* line 231
  to_send,     \* line 232
  rows,        \* rows of df iterated so far
  i,           \* position of the sending loop in to_send[:MAX_MESSAGES_PER_RUN]
  sent_count,  \* line 255
  last,        \* history: what the latest loop iteration did
  calls,       \* history: calls of send_whatsapp in this run
  sleeps,      \* history: calls of time.sleep in this run
  accepted,    \* history: sends the provider accepted in this run
  conn0,       \* history: the table as this run found it
  skipped,     \* history: phones skipped as already sent in this run (line 250)
  delivered,   \* history: accepted sends per (phone, year), saturating
  failed       \* history: keys whose send failed and has not succeeded since

vars == <<pc, now, runs, env, conn, columns, today_year, to_send, rows, i,
          sent_count, last, calls, sleeps, accepted, conn0, skipped,
          delivered, failed>>

Keys == Phones \X Years
\* MAX_MESSAGES_PER_RUN is read from the environment (line 46); the values
\* are scaled to the row bound
MaxMessagesValues == {1, 2}
Envs == [twilio : BOOLEAN, meta : BOOLEAN, openai : BOOLEAN,
         MAX_MESSAGES_PER_RUN : MaxMessagesValues]
NoEnv == [twilio |-> FALSE, meta |-> FALSE, openai |-> FALSE,
          MAX_MESSAGES_PER_RUN |-> 0]
NoLast == [idx |-> 0, phone |-> "", result |-> "none", path |-> "none", msg |-> <<>>]

Required == {"name", "phone", "birthday"}
RequiredHeaders ==
  { {"name", "phone", "birthday"}, {"Name ", "PHONE", "Birthday"},
    {"name", "phone"}, {"PHONE", "Birthday"}, {"Name ", "birthday"} }
OptionalHeaders ==
  { {}, {"notes"}, {"timezone", "template"}, {"timezone", "notes", "template"} }
HeaderSets == {r \cup o : r \in RequiredHeaders, o \in OptionalHeaders}

\* line 223
NormalizeColumns(hdr) == {LowerTok(StripTok(c)) : c \in hdr}

\* row.get(col, None) on a row of a frame with the given columns
CellValues(col, values) ==
  IF col \in columns THEN values \ {None} ELSE {None}

Min(a, b) == IF a < b THEN a ELSE b
\* to_send[:MAX_MESSAGES_PER_RUN]
Capped(s) == SubSeq(s, 1, Min(Len(s), env.MAX_MESSAGES_PER_RUN))

Init ==
  /\ pc = "Idle"
  /\ now = 0
  /\ runs = 0
  /\ env = NoEnv
  /\ conn = {}
  /\ columns = {}
  /\ today_year = 0
  /\ to_send = <<>>
  /\ rows = 0
  /\ i = 0
  /\ sent_count = 0
  /\ last = NoLast
  /\ calls = 0
  /\ sleeps = 0
  /\ accepted = 0
  /\ conn0 = {}
  /\ skipped = {}
  /\ delivered = [k \in Keys |-> 0]
  /\ failed = {}

runLocal == <<columns, today_year, to_send, rows, i, sent_count, last, calls, sleeps,
              accepted, skipped>>

\* time passes between two runs
Tick ==
  /\ pc = "Idle"
  /\ now < MaxTime
  /\ now' = now + 1
  /\ UNCHANGED <<pc, runs, env, conn, conn0, delivered, failed, runLocal>>

\* the process starts: lines 31-47 read the environment, lines 211-213
Start(maxRuns, envs) ==
  /\ pc = "Idle"
  /\ runs < maxRuns
  /\ runs' = runs + 1
  /\ env' \in envs
  /\ conn' = init_db(conn)
  /\ conn0' = conn'
  /\ pc' = "Loading"
  /\ UNCHANGED <<now, delivered, failed, runLocal>>

\* lines 216-220: read_excel raises
LoadFail ==
  /\ pc = "Loading"
  /\ pc' = "Aborted"
  /\ UNCHANGED <<now, runs, env, conn, conn0, delivered, failed, runLocal>>

\* faulty variant: the loop over `required` returns after its first element
MissingRequired_first_only(cols) == "name" \notin cols

\* the check of lines 225-229
MissingRequired(cols) == \E r \in Required : r \notin cols

\* lines 217-229: a required column is missing
LoadMissingColumn(headers) ==
  /\ pc = "Loading"
  /\ \E hdr \in headers :
       /\ MissingRequired(NormalizeColumns(hdr))
       /\ columns' = NormalizeColumns(hdr)
  /\ pc' = "Aborted"
  /\ UNCHANGED <<now, runs, env, conn, conn0, delivered, failed, today_year,
                 to_send, rows, i, sent_count, last, calls, sleeps, accepted, skipped>>

\* lines 217-232
LoadOk(headers) ==
  /\ pc = "Loading"
  /\ \E hdr \in headers :
       /\ ~MissingRequired(NormalizeColumns(hdr))
       /\ columns' = NormalizeColumns(hdr)
  /\ today_year' = UtcYear(now)
  /\ to_send' = <<>>
  /\ pc' = "Filtering"
  /\ UNCHANGED <<now, runs, env, conn, conn0, delivered, failed,
                 rows, i, sent_count, last, calls, sleeps, accepted, skipped>>

\* lines 242-252 for one row: the new value of to_send
Filtered(cands, name, phone, bday_raw, timezone, notes, template) ==
  LET bday == parse_birthday(bday_raw) IN
  IF bday = NoDate THEN cands
  ELSE IF ~is_birthday_today(bday, timezone, now) THEN cands
  ELSE IF already_sent(conn, phone, today_year) THEN cands
  ELSE Append(cands, [name |-> name, phone |-> phone,
                      notes |-> notes, template |-> template])

\* the row reaches the log line 250
SkippedAsSent(phone, bday_raw, timezone) ==
  /\ parse_birthday(bday_raw) # NoDate
  /\ is_birthday_today(parse_birthday(bday_raw), timezone, now)
  /\ already_sent(conn, phone, today_year)

\* lines 233-252: one iteration over df.iterrows()
FilterRow(nameCells, phoneCells, bdayCells, tzCells, notesCells, templateCells) ==
  /\ pc = "Filtering"
  /\ rows < MaxRows
  /\ \E nameCell \in nameCells, phoneCell \in phoneCells, bday_raw \in bdayCells,
        timezone \in CellValues("timezone", tzCells),
        notes \in CellValues("notes", notesCells),
        template \in CellValues("template", templateCells) :
       /\ to_send' = Filtered(to_send, PyStrStrip(nameCell), PyStrStrip(phoneCell),
                              bday_raw, timezone, notes, template)
       /\ skipped' = IF SkippedAsSent(PyStrStrip(phoneCell), bday_raw, timezone)
                     THEN skipped \cup {PyStrStrip(phoneCell)} ELSE skipped
  /\ rows' = rows + 1
  /\ UNCHANGED <<pc, now, runs, env, conn, conn0, delivered, failed, columns,
                 today_year, i, sent_count, last, calls, sleeps, accepted>>

\* lines 254-255: the rows are exhausted
FilterEnd ==
  /\ pc = "Filtering"
  /\ sent_count' = 0
  /\ i' = 1
  /\ pc' = "Sending"
  /\ UNCHANGED <<now, runs, env, conn, conn0, delivered, failed, columns,
                 today_year, to_send, rows, last, calls, sleeps, accepted, skipped>>

Bump(n) == Min(n + 1, SendCountCap)

\* faulty variant: the record is written whether or not the send succeeded
ConnAfter_always(success, c, text) ==
  record_send(conn, c.phone, today_year, text, now)

\* lines 260-261: the table after send_whatsapp returned `success`
ConnAfter(success, c, text) ==
  IF success THEN record_send(conn, c.phone, today_year, text, now) ELSE conn

\* lines 260-262: the counter after send_whatsapp returned `success`
CountAfter(success) == IF success THEN sent_count + 1 ELSE sent_count

\* faulty variant: no try/except around the candidate
AfterCandidate_uncaught(result) ==
  IF result \in {"raised", "not called"} THEN "Aborted" ELSE "Sending"

\* lines 257-268: where main() is after a candidate whose processing ended
\* with `result`; an exception is caught at line 266 and the loop goes on
AfterCandidate(result) == "Sending"

\* lines 256-268: one iteration of the sending loop
SendStep ==
  /\ pc = "Sending"
  /\ i <= Len(Capped(to_send))
  /\ LET c == Capped(to_send)[i]
         key == <<c.phone, today_year>>
     IN \E g \in generate_personal_message(c.name, c.notes, c.template, env.openai) :
          \E r \in (IF g.kind = "raise" THEN {"not called"} ELSE send_whatsapp(env)) :
            /\ last' = [idx |-> i, phone |-> c.phone, result |-> r,
                        path |-> g.path, msg |-> g.text]
            /\ calls' = IF g.kind = "raise" THEN calls ELSE calls + 1
            /\ conn' = ConnAfter(r = "accepted", c, g.text)
            /\ sent_count' = CountAfter(r = "accepted")
            /\ pc' = AfterCandidate(r)
            /\ sleeps' = IF pc' = "Sending" THEN sleeps + 1 ELSE sleeps
            /\ IF r = "accepted"
               THEN /\ accepted' = accepted + 1
                    /\ delivered' = [delivered EXCEPT ![key] = Bump(@)]
                    /\ failed' = failed \ {key}
               ELSE /\ UNCHANGED <<accepted, delivered>>
                    /\ failed' = IF r = "rejected" /\ delivered[key] = 0
                                 THEN failed \cup {key} ELSE failed
  /\ i' = i + 1
  /\ UNCHANGED <<now, runs, env, conn0, columns, today_year, to_send, rows, skipped>>

\* lines 270-271
Finish ==
  /\ pc = "Sending"
  /\ i > Len(Capped(to_send))
  /\ pc' = "Done"
  /\ UNCHANGED <<now, runs, env, conn, conn0, delivered, failed, runLocal>>

\* the process ends; nothing but the table outlives it
Exit ==
  /\ pc \in {"Done", "Aborted"}
  /\ pc' = "Idle"
  /\ env' = NoEnv
  /\ columns' = {}
  /\ today_year' = 0
  /\ to_send' = <<>>
  /\ rows' = 0
  /\ i' = 0
  /\ sent_count' = 0
  /\ last' = NoLast
  /\ calls' = 0
  /\ sleeps' = 0
  /\ accepted' = 0
  /\ conn0' = {}
  /\ skipped' = {}
  /\ UNCHANGED <<now, runs, conn, delivered, failed>>

(* ------- one run on the first day, over the full input universe ------- *)
Next ==
  \/ Start(1, Envs)
  \/ LoadFail
  \/ LoadMissingColumn(HeaderSets)
  \/ LoadOk(HeaderSets)
  \/ FilterRow(NameCells, PhoneCells, BirthdayCells, TimezoneCells,
               NotesValues, TemplateValues)
  \/ FilterEnd
  \/ SendStep
  \/ Finish
  \/ Exit

Spec == Init /\ [][Next]_vars

\* the sending loop is a plain for loop: an enabled step is taken
FairSpec == Spec /\ WF_vars(SendStep) /\ WF_vars(Finish)

(* --------------- several runs, over a narrow input universe ----------- *)
RunsEnvs == {e \in Envs : e.twilio /\ ~e.meta /\ ~e.openai /\ e.MAX_MESSAGES_PER_RUN = 2}
RunsHeaders == { {"Name ", "PHONE", "Birthday", "timezone", "template"},
                 {"Name ", "PHONE", "template"} }
RunsBirthdays == {b \in BirthdayCells : b.t = "timestamp" /\ b.year = 1990}
RunsTimezones == {NaN, Str(AheadZone)}
RunsNames == {Str(<<"Alice">>)}

NextRuns ==
  \/ Tick
  \/ Start(MaxRuns, RunsEnvs)
  \/ LoadFail
  \/ LoadMissingColumn(RunsHeaders)
  \/ LoadOk(RunsHeaders)
  \/ FilterRow(RunsNames, PhoneCells, RunsBirthdays, RunsTimezones,
               NotesValues, TemplateValues)
  \/ FilterEnd
  \/ SendStep
  \/ Finish
  \/ Exit

SpecRuns == Init /\ [][NextRuns]_vars


(* ------------- generate_personal_message as a pure function ----------- *)
ComposeNotes == NotesValues \cup {Str(<<>>), Str(<<"{x}">>)}
ComposeTemplates == TemplateValues \cup {Str(<<>>)}

ComposeInit ==
  /\ pc = "Compose"
  /\ now = 0
  /\ runs = 0
  /\ env \in {e \in Envs : ~e.twilio /\ ~e.meta /\ e.MAX_MESSAGES_PER_RUN = 1}
  /\ conn = {}
  /\ columns = {}
  /\ today_year = 0
  /\ \E name \in Names, phone \in Phones, notes \in ComposeNotes,
        template \in ComposeTemplates :
       to_send = << [name |-> name, phone |-> phone,
                     notes |-> notes, template |-> template] >>
  /\ rows = 0
  /\ i = 1
  /\ sent_count = 0
  /\ last = NoLast
  /\ calls = 0
  /\ sleeps = 0
  /\ accepted = 0
  /\ conn0 = {}
  /\ skipped = {}
  /\ delivered = [k \in Keys |-> 0]
  /\ failed = {}

\* line 258 alone
Compose ==
  /\ pc = "Compose"
  /\ \E g \in generate_personal_message(to_send[1].name, to_send[1].notes,
                                        to_send[1].template, env.openai) :
       last' = [idx |-> 1, phone |-> to_send[1].phone,
                result |-> IF g.kind = "raise" THEN "raised" ELSE "returned",
                path |-> g.path, msg |-> g.text]
  /\ pc' = "Composed"
  /\ UNCHANGED <<now, runs, env, conn, columns, today_year, to_send, rows, i,
                 sent_count, calls, sleeps, accepted, conn0, skipped,
                 delivered, failed>>

ComposeNext == Compose

SpecCompose == ComposeInit /\ [][ComposeNext]_vars

(* ------------------------------- claims ------------------------------- *)
HasRecord(phone, year) == \E r \in conn : r.phone = phone /\ r.year = year

\* C1: at most one accepted send per (phone, UTC year), also when several
\* rows of one run share a phone.
C1_AtMostOneSendPerPhoneYear == \A k \in Keys : delivered[k] <= 1

\* C2: a phone the table already holds for the run's UTC year when the run
\* starts is never a candidate of that run and is never sent to in it.
C2_AlreadySentNotAttempted ==
  \A r \in conn0 :
    r.year = today_year =>
      /\ \A k \in DOMAIN to_send : to_send[k].phone # r.phone
      /\ last.phone # r.phone

C2_Witness == pc = "Done" /\ skipped # {} /\ calls >= 1

\* C3: right after an accepted send, already_sent holds for (phone, year)
\* and the stored message is the text that was passed to the sender.
C3_RoundTrip ==
  last.result = "accepted" =>
    /\ already_sent(conn, last.phone, today_year)
    /\ \A r \in conn :
         (r.phone = last.phone /\ r.year = today_year) => r.message = last.msg

C3_Witness ==
  /\ last.result = "accepted"
  /\ last.idx = 2
  /\ to_send[1].phone = to_send[2].phone
  /\ to_send[1].name # to_send[2].name
  /\ delivered[<<last.phone, today_year>>] = 2

\* C4: with more candidates than MAX_MESSAGES_PER_RUN, the run makes exactly
\* MAX_MESSAGES_PER_RUN send attempts, for the first candidates in order.
C4_ExactlyCapSendAttempts ==
  (pc = "Done" /\ Len(to_send) > env.MAX_MESSAGES_PER_RUN /\ Provider(env) # "none") =>
    /\ calls = env.MAX_MESSAGES_PER_RUN
    /\ i = env.MAX_MESSAGES_PER_RUN + 1

C6_OneRowScenario ==
  ( /\ pc = "Done"
    /\ rows = 1
    /\ Len(to_send) = 1
    /\ {"timezone", "notes", "template"} \subseteq columns
    /\ to_send[1].notes = NaN
    /\ to_send[1].template = NaN
    /\ ~env.openai
    /\ Provider(env) # "none"
    /\ last.result \notin {"rejected", "raised"} )
  => /\ calls = 1
     /\ last.path = "builtin"
     /\ sent_count = 1
     /\ HasRecord(to_send[1].phone, today_year)

\* C7 as stated: when the provider call fails the result is what the
\* no-provider case can return (notes appended when present).
C7_FailureSameAsNoProvider ==
  (pc = "Composed" /\ last.path = "fallback") =>
    /\ last.result = "returned"
    /\ Ok("builtin", last.msg)
         \in generate_personal_message(to_send[1].name, to_send[1].notes,
                                       to_send[1].template, FALSE)

\* C7 as amended: with no template and the provider configured the call
\* never raises, and when the provider call fails the result is one of the
\* first two builtin greetings with the name substituted and no postscript.
C7_FailureFallsBack ==
  (pc = "Composed" /\ env.openai /\ ~Truthy(to_send[1].template)) =>
    /\ last.result = "returned"
    /\ last.path = "fallback" =>
         last.msg \in
           { <<"Happy Birthday, ", to_send[1].name,
               "! Wishing you a fantastic day filled with joy.">>,
             <<"Many happy returns, ", to_send[1].name,
               "! Hope you have a wonderful birthday.">> }

C7_Witness ==
  /\ pc = "Composed"
  /\ last.path = "fallback"
  /\ to_send[1].notes = Str(NotesText)
  /\ to_send[1].template = None

\* C8: every record was written by an accepted send of a run in the record's
\* UTC year, there is one record per key, no key ever leaves the table, and
\* the filtering stage does not change the table.
C8_RecordsOnlyGrow ==
  /\ [](\A r \in conn : delivered[<<r.phone, r.year>>] >= 1
                         /\ UtcYear(r.sent_at) = r.year)
  /\ [](\A r1, r2 \in conn :
          (r1.phone = r2.phone /\ r1.year = r2.year) => r1 = r2)
  /\ [][ /\ \A r \in conn : \E q \in conn' : q.phone = r.phone /\ q.year = r.year
         /\ pc = "Filtering" => conn' = conn
         /\ conn' # conn =>
              /\ last'.result = "accepted"
              /\ \A q \in conn' \ conn :
                   q.phone = last'.phone /\ q.year = UtcYear(now) ]_vars

C8_Witness ==
  \E r1, r2 \in conn : r1.phone = r2.phone /\ r1.year # r2.year

C10_LoadFailureSendsNothing ==
  /\ [](pc = "Aborted" => calls = 0 /\ conn = conn0 /\ to_send = <<>>)
  /\ [](pc \in {"Filtering", "Sending", "Done"} => Required \subseteq columns)
  /\ [][pc = "Aborted" => (pc' = "Idle" /\ conn' = conn)]_vars

C10_Witness ==
  /\ pc = "Aborted"
  /\ columns = {"name", "phone", "template"}
  /\ conn # {}

====
